---- MODULE Spec2Model ----
(***************************************************************************)
(* A model of langchain/src/util/sql_utils.ts: the schema introspection    *)
(* (getTableAndColumnsName), the normaliser (formatToSqlTable), the        *)
(* include/ignore validation (verifyListTablesExistInDatabase) and the     *)
(* renderer (generateTableInfoFromTables).                                 *)
(*                                                                         *)
(* A JavaScript string is modelled as a sequence of one-character strings, *)
(* so that concatenation, template literals and number formatting are      *)
(* computed and two texts are equal exactly when they are equal character  *)
(* by character.                                                           *)
(***************************************************************************)
EXTENDS Integers, Sequences, FiniteSets, TLC

VARIABLES
    \* formatToSqlTable called on its own
    rawResultsTableAndColumn, sqlTable,
    \* verifyListTablesExistInDatabase called on its own
    tablesFromDatabase, listTables, errorPrefixMsg, verifyOutcome,
    \* the data source: options.type, options.database, the executor's log
    dsType, dsDatabase, queryLog, outstanding,
    \* getTableAndColumnsName
    catalog, catPc, rep, catResult, catError, catRejection,
    \* renderTableInfo / generateTableInfoFromTables
    tables, nbSampleRow, call, genPc, idx, globalString, pending,
    outcomes, consoleLog, genResult, genError

vars == << rawResultsTableAndColumn, sqlTable,
           tablesFromDatabase, listTables, errorPrefixMsg, verifyOutcome,
           dsType, dsDatabase, queryLog, outstanding,
           catalog, catPc, rep, catResult, catError, catRejection,
           tables, nbSampleRow, call, genPc, idx, globalString, pending,
           outcomes, consoleLog, genResult, genError >>

normalizeVars == << rawResultsTableAndColumn, sqlTable >>
verifyVars == << tablesFromDatabase, listTables, errorPrefixMsg, verifyOutcome >>
dsVars == << dsType, dsDatabase, queryLog, outstanding >>
catVars == << catalog, catPc, rep, catResult, catError, catRejection >>
genVars == << tables, nbSampleRow, call, genPc, idx, globalString, pending,
              outcomes, consoleLog, genResult, genError >>

-----------------------------------------------------------------------------
(* Bounds of the model *)

\* longest raw result handed to formatToSqlTable on its own
MaxRawRows == 3
\* longest list of names handed to verifyListTablesExistInDatabase
MaxListLen == 2
\* most column records a catalog holds
MaxCatalogCols == 4
\* most rows a sample query returns
MaxSampleRows == 2
\* most catalog rows a rendered snapshot is normalised from
MaxRenderRows == 3

-----------------------------------------------------------------------------
(* Text *)

\* the empty string
EmptyString == << >>

\* an optional value that is absent (undefined) or present
Undefined == [some |-> FALSE, val |-> << >>]
Some(v) == [some |-> TRUE, val |-> v]

Digits == << "0", "1", "2", "3", "4", "5", "6", "7", "8", "9" >>

\* `${n}` for a non-negative integer n
RECURSIVE NatToString(_)
NatToString(n) ==
    IF n < 10 THEN << Digits[n + 1] >>
    ELSE NatToString(n \div 10) \o << Digits[(n % 10) + 1] >>

\* `${n}` for an integer n
NumberToString(n) == IF n < 0 THEN << "-" >> \o NatToString(0 - n) ELSE NatToString(n)

\* values of the cells of a sample row
Num(n) == [t |-> "number", n |-> n, s |-> << >>]
Str(s) == [t |-> "string", n |-> 0, s |-> s]
Null == [t |-> "null", n |-> 0, s |-> << >>]

\* `${columnValue}`: the natural string form of a cell
ValueToString(v) ==
    CASE v.t = "number" -> NumberToString(v.n)
      [] v.t = "string" -> v.s
      [] OTHER -> <<"n", "u", "l", "l">>

\* `${x}` for an optional string: undefined prints as the word undefined
OptionalToString(o) == IF o.some THEN o.val ELSE <<"u", "n", "d", "e", "f", "i", "n", "e", "d">>

\* Array.prototype.includes
Includes(seq, x) == \E k \in 1..Len(seq) : seq[k] = x

\* sequences over S of length at most n
SeqUpTo(S, n) == UNION { [1..k -> S] : k \in 0..n }

-----------------------------------------------------------------------------
(* verifyListTablesExistInDatabase, lines 39-56 *)

VerifyOk == [threw |-> FALSE, message |-> EmptyString]
VerifyThrow(msg) == [threw |-> TRUE, message |-> msg]

\* the message of the Error, lines 50-52
NotFoundMessage(prefix, tableName) ==
    prefix \o <<" ", "t", "h", "e", " ", "t", "a", "b", "l", "e", " ">> \o tableName \o <<" ", "w", "a", "s", " ", "n", "o", "t", " ", "f", "o", "u", "n", "d", " ", "i", "n", " ", "t", "h", "e", " ", "d", "a", "t", "a", "b", "a", "s", "e">>

\* the mutant: the loop reports the last absent name instead of stopping at the first
RECURSIVE VerifyLoopReportsLast(_, _, _, _)
VerifyLoopReportsLast(onlyTableNames, list, k, prefix) ==
    IF k > Len(list) THEN VerifyOk
    ELSE LET rest == VerifyLoopReportsLast(onlyTableNames, list, k + 1, prefix)
         IN  IF rest.threw THEN rest
             ELSE IF ~Includes(onlyTableNames, list[k])
                  THEN VerifyThrow(NotFoundMessage(prefix, list[k]))
                  ELSE VerifyOk

\* the for loop of lines 48-54, from the k-th name on
RECURSIVE VerifyLoop(_, _, _, _)
VerifyLoop(onlyTableNames, list, k, prefix) ==
    IF k > Len(list) THEN VerifyOk
    ELSE IF ~Includes(onlyTableNames, list[k])
         THEN VerifyThrow(NotFoundMessage(prefix, list[k]))
         ELSE VerifyLoop(onlyTableNames, list, k + 1, prefix)

verifyListTablesExistInDatabase(tbls, list, prefix) ==
    LET onlyTableNames == [k \in 1..Len(tbls) |-> tbls[k].tableName]
    IN  IF Len(list) > 0
        THEN VerifyLoop(onlyTableNames, list, 1, prefix)
        ELSE VerifyOk

IncludePrefix == <<"I", "n", "c", "l", "u", "d", "e", " ", "t", "a", "b", "l", "e", "s", " ", "n", "o", "t", " ", "f", "o", "u", "n", "d", " ", "i", "n", " ", "d", "a", "t", "a", "b", "a", "s", "e", ":">>
IgnorePrefix == <<"I", "g", "n", "o", "r", "e", " ", "t", "a", "b", "l", "e", "s", " ", "n", "o", "t", " ", "f", "o", "u", "n", "d", " ", "i", "n", " ", "d", "a", "t", "a", "b", "a", "s", "e", ":">>

verifyIncludeTablesExistInDatabase(tbls, includeTables) ==
    verifyListTablesExistInDatabase(tbls, includeTables, IncludePrefix)

verifyIgnoreTablesExistInDatabase(tbls, ignoreTables) ==
    verifyListTablesExistInDatabase(tbls, ignoreTables, IgnorePrefix)

-----------------------------------------------------------------------------
(* formatToSqlTable, lines 80-105 *)

\* lines 85-89
SqlColumnOf(oneResult) ==
    [columnName |-> oneResult.column_name,
     dataType |-> oneResult.data_type,
     isNullable |-> (oneResult.is_nullable = <<"Y", "E", "S">>)]

\* Array.prototype.find of lines 90-92: the index of the first table of that
\* name, 0 when there is none
FindTable(acc, name) ==
    IF \E k \in 1..Len(acc) : acc[k].tableName = name
    THEN CHOOSE k \in 1..Len(acc) :
            /\ acc[k].tableName = name
            /\ \A j \in 1..(k - 1) : acc[j].tableName # name
    ELSE 0

\* the mutant: a row whose table is not the last one opens a new table
FormatStepLastOnly(acc, oneResult) ==
    LET sqlColumn == SqlColumnOf(oneResult)
    IN  IF Len(acc) > 0 /\ acc[Len(acc)].tableName = oneResult.table_name
        THEN [acc EXCEPT ![Len(acc)].columns = Append(@, sqlColumn)]
        ELSE Append(acc, [tableName |-> oneResult.table_name,
                          columns |-> << sqlColumn >>])

\* one iteration of the loop, lines 84-102
FormatStep(acc, oneResult) ==
    LET sqlColumn == SqlColumnOf(oneResult)
        cur == FindTable(acc, oneResult.table_name)
    IN  IF cur # 0
        THEN [acc EXCEPT ![cur].columns = Append(@, sqlColumn)]
        ELSE Append(acc, [tableName |-> oneResult.table_name,
                          columns |-> << sqlColumn >>])

RECURSIVE FormatLoop(_, _, _)
FormatLoop(acc, rows, k) ==
    IF k > Len(rows) THEN acc
    ELSE FormatLoop(FormatStep(acc, rows[k]), rows, k + 1)

formatToSqlTable(rows) == FormatLoop(<< >>, rows, 1)

-----------------------------------------------------------------------------
(* Names and rows the specifications draw their inputs from *)

NameT1 == <<"T", "1">>
NameT2 == <<"T", "2">>
NameUsers == <<"U", "s", "e", "r", "s">>
NameGhost == <<"G", "h", "o", "s", "t">>

RawRow(t, c, d, n) ==
    [table_name |-> t, column_name |-> c, data_type |-> d, is_nullable |-> n]

\* raw rows for formatToSqlTable: two tables, nullable and not, a lower-case
\* "yes", an absent data_type
NormalizeRows ==
    { RawRow(t, c, Some(<<"i", "n", "t">>), n) :
        t \in { NameT1, NameT2 }, c \in { <<"a">>, <<"b">> }, n \in { <<"Y", "E", "S">>, <<"N", "O">> } }
    \cup { RawRow(NameT1, <<"c">>, Undefined, <<"y", "e", "s">>),
           RawRow(NameT2, <<"c">>, Some(<<"t", "e", "x", "t">>), EmptyString) }

\* the snapshots and lists verifyListTablesExistInDatabase is tried on
VerifySnapshots ==
    { formatToSqlTable(rows) :
        rows \in SeqUpTo({ RawRow(NameT1, <<"a">>, Some(<<"i", "n", "t">>), <<"N", "O">>),
                           RawRow(NameT2, <<"b">>, Some(<<"i", "n", "t">>), <<"Y", "E", "S">>),
                           RawRow(NameUsers, <<"i", "d">>, Some(<<"i", "n", "t">>), <<"N", "O">>) }, 2) }

VerifyNames == { NameT1, NameT2, NameGhost, EmptyString }

-----------------------------------------------------------------------------
(* The database behind the executor: its catalog and how it answers the    *)
(* catalog queries of getTableAndColumnsName                               *)

CatalogColumn(s, t, c, o, d, n) ==
    [table_schema |-> s, table_name |-> t, column_name |-> c,
     ordinal_position |-> o, data_type |-> d, is_nullable |-> n]

NameOrders == <<"o", "r", "d", "e", "r", "s">>
NameUsersLc == <<"u", "s", "e", "r", "s">>
NameSqliteSequence == <<"s", "q", "l", "i", "t", "e", "_", "s", "e", "q", "u", "e", "n", "c", "e">>
\* a user table that the pattern of line 147 matches all the same
NameSqliteUpper == <<"S", "Q", "L", "I", "T", "E", "X">>

\* column records of postgres and mysql catalogs: users is declared (name, id),
\* and a second schema holds a table called users too
ServerColumns ==
    { CatalogColumn("public", NameUsersLc, <<"n", "a", "m", "e">>, 1, Some(<<"t", "e", "x", "t">>), <<"Y", "E", "S">>),
      CatalogColumn("public", NameUsersLc, <<"i", "d">>, 2, Some(<<"i", "n", "t">>), <<"N", "O">>),
      CatalogColumn("public", NameOrders, <<"t", "o", "t", "a", "l">>, 1, Some(<<"i", "n", "t">>), <<"N", "O">>),
      CatalogColumn("audit", NameUsersLc, <<"n", "a", "m", "e">>, 1, Some(<<"t", "e", "x", "t">>), <<"Y", "E", "S">>),
      CatalogColumn("audit", NameUsersLc, <<"t", "s">>, 2, Some(<<"i", "n", "t">>), <<"N", "O">>) }

\* column records of sqlite catalogs: one schema, an internal table, and a
\* table whose upper-case name the LIKE pattern matches
SqliteColumns ==
    { CatalogColumn("main", NameUsersLc, <<"n", "a", "m", "e">>, 1, Some(<<"t", "e", "x", "t">>), <<"Y", "E", "S">>),
      CatalogColumn("main", NameUsersLc, <<"i", "d">>, 2, Some(<<"i", "n", "t">>), <<"N", "O">>),
      CatalogColumn("main", NameOrders, <<"t", "o", "t", "a", "l">>, 1, Some(<<"i", "n", "t">>), <<"N", "O">>),
      CatalogColumn("main", NameSqliteSequence, <<"s", "e", "q">>, 1, Undefined, <<"Y", "E", "S">>),
      CatalogColumn("main", NameSqliteUpper, <<"a">>, 1, Some(<<"i", "n", "t">>), <<"Y", "E", "S">>) }

\* collation of the characters of the names above, in ASCII order
Alphabet == <<"A", "B", "C", "D", "E", "F", "G", "H", "I", "J", "K", "L", "M", "N", "O", "P", "Q", "R", "S", "T", "U", "V", "W", "X", "Y", "Z", "_", "a", "b", "c", "d", "e", "f", "g", "h", "i", "j", "k", "l", "m", "n", "o", "p", "q", "r", "s", "t", "u", "v", "w", "x", "y", "z">>
Rank(ch) == CHOOSE k \in 1..Len(Alphabet) : Alphabet[k] = ch

\* s sorts strictly before t
RECURSIVE LexLess(_, _)
LexLess(s, t) ==
    IF Len(t) = 0 THEN FALSE
    ELSE IF Len(s) = 0 THEN TRUE
    ELSE IF Rank(Head(s)) # Rank(Head(t)) THEN Rank(Head(s)) < Rank(Head(t))
    ELSE LexLess(Tail(s), Tail(t))

\* the ASCII letters, for SQLite's LIKE, which ignores their case
UpperCaseLetters == <<"A", "B", "C", "D", "E", "F", "G", "H", "I", "J", "K", "L", "M", "N", "O", "P", "Q", "R", "S", "T", "U", "V", "W", "X", "Y", "Z">>
LowerCaseLetters == <<"a", "b", "c", "d", "e", "f", "g", "h", "i", "j", "k", "l", "m", "n", "o", "p", "q", "r", "s", "t", "u", "v", "w", "x", "y", "z">>

ToLowerAscii(ch) ==
    IF \E k \in 1..Len(UpperCaseLetters) : UpperCaseLetters[k] = ch
    THEN LowerCaseLetters[CHOOSE k \in 1..Len(UpperCaseLetters) : UpperCaseLetters[k] = ch]
    ELSE ch

\* name LIKE 'sqlite_%', line 147: the letters match whatever their case, the
\* underscore of the pattern stands for any one character and the percent
\* sign for any rest
LikeSqliteInternal(name) ==
    /\ Len(name) >= 7
    /\ [k \in 1..6 |-> ToLowerAscii(name[k])] = <<"s", "q", "l", "i", "t", "e">>

\* information_schema.tables: one row per table of each schema
InformationSchemaTables(cat) ==
    { [table_schema |-> c.table_schema, table_name |-> c.table_name] : c \in cat }

\* The three catalog queries, by what their SQL text asks for.
\* lines 112-124: tables JOIN columns ON t.table_name = c.table_name
\* WHERE t.table_schema = 'public' ORDER BY t.table_name, c.ordinal_position
PostgresCatalogSql ==
    [source |-> "information_schema.tables JOIN information_schema.columns",
     joinOn |-> { "table_name" },
     whereTableSchema |-> "public",
     orderBy |-> << "table_name", "ordinal_position" >>]

\* lines 132-147: sqlite_master JOIN pragma_table_info(m.name)
\* WHERE m.type = 'table' AND m.name NOT LIKE 'sqlite_%', no ORDER BY
SqliteCatalogSql ==
    [source |-> "sqlite_master JOIN pragma_table_info",
     joinOn |-> { "table_name" },
     whereTableSchema |-> "main",
     orderBy |-> << >>]

\* lines 155-162: INFORMATION_SCHEMA.COLUMNS WHERE TABLE_SCHEMA = '<database>',
\* no ORDER BY
MysqlCatalogSql(database) ==
    [source |-> "INFORMATION_SCHEMA.COLUMNS",
     joinOn |-> { },
     whereTableSchema |-> database,
     orderBy |-> << >>]

\* the rows a catalog query selects
ResultSet(sql, cat) ==
    CASE sql.source = "information_schema.tables JOIN information_schema.columns" ->
           \* SELECT t.table_name, c.*: the column's own row, under the table's name
           { c \in cat :
               \E t \in InformationSchemaTables(cat) :
                  /\ t.table_schema = sql.whereTableSchema
                  /\ t.table_name = c.table_name
                  /\ ("table_schema" \in sql.joinOn => t.table_schema = c.table_schema) }
      [] sql.source = "sqlite_master JOIN pragma_table_info" ->
           { RawRow(c.table_name, c.column_name, c.data_type, c.is_nullable) :
               c \in { x \in cat : ~LikeSqliteInternal(x.table_name) } }
      [] OTHER ->
           { RawRow(c.table_name, c.column_name, c.data_type, c.is_nullable) :
               c \in { x \in cat : x.table_schema = sql.whereTableSchema } }

\* r may come before s under ORDER BY table_name, ordinal_position
OrderedBefore(r, s) ==
    \/ LexLess(r.table_name, s.table_name)
    \/ /\ r.table_name = s.table_name
       /\ r.ordinal_position <= s.ordinal_position

\* every order in which the executor may return the rows: any order at all
\* without ORDER BY, and only the sorted ones with it
ExecuteCatalogQuery(sql, cat) ==
    LET rs == ResultSet(sql, cat)
        n == Cardinality(rs)
    IN  { s \in [1..n -> rs] :
            /\ \A i, j \in 1..n : i # j => s[i] # s[j]
            /\ sql.orderBy # << >> =>
                 \A i, j \in 1..n : i < j => OrderedBefore(s[i], s[j]) }

-----------------------------------------------------------------------------
(* getTableAndColumnsName, lines 107-170 *)

NotImplementedMessage == <<"D", "a", "t", "a", "b", "a", "s", "e", " ", "t", "y", "p", "e", " ", "n", "o", "t", " ", "i", "m", "p", "l", "e", "m", "e", "n", "t", "e", "d", " ", "y", "e", "t">>

\* the mutant: an unknown type falls through to the last query
CatalogSqlForFallsThrough(type, database) ==
    CASE type = "postgres" -> Some(PostgresCatalogSql)
      [] type = "sqlite" -> Some(SqliteCatalogSql)
      [] OTHER -> Some(MysqlCatalogSql(database))

\* the branches of lines 111, 131, 154: the query of a type, none for the others
CatalogSqlFor(type, database) ==
    CASE type = "postgres" -> Some(PostgresCatalogSql)
      [] type = "sqlite" -> Some(SqliteCatalogSql)
      [] type = "mysql" -> Some(MysqlCatalogSql(database))
      [] OTHER -> Undefined

\* the mutant: a failed catalog query is swallowed and an empty snapshot returned
CatalogRejectedSwallowed(err) ==
    [pc |-> "returned", error |-> Undefined, result |-> Some(<< >>)]

\* lines 126, 149, 164: the awaited query is in no try block, so its rejection
\* is the rejection of the call
CatalogRejected(err) ==
    [pc |-> "thrown", error |-> Some(err), result |-> Undefined]

\* the driver's errors
DriverErrors == { <<"c", "o", "n", "n", "e", "c", "t", "i", "o", "n", " ", "l", "o", "s", "t">>, <<"t", "i", "m", "e", "o", "u", "t">> }

-----------------------------------------------------------------------------
(* formatSqlResponseToSimpleTableString, lines 172-186 *)

\* what the executor resolves a sample query with: an array of rows (a row is
\* the sequence of its Object.values), undefined, or an object that is no array
ArrayOf(rows) == [kind |-> "array", rows |-> rows]
UndefinedResponse == [kind |-> "undefined", rows |-> << >>]
ObjectResponse == [kind |-> "object", rows |-> << >>]

\* the reduce of lines 179-182 over the values of one row, from the k-th on
RECURSIVE ReduceRow(_, _, _)
ReduceRow(completeString, values, k) ==
    IF k > Len(values) THEN completeString
    ELSE ReduceRow(completeString \o <<" ">> \o ValueToString(values[k]), values, k + 1)

\* the loop of lines 178-183
RECURSIVE RowsLoop(_, _, _)
RowsLoop(acc, rows, k) ==
    IF k > Len(rows) THEN acc
    ELSE RowsLoop(acc \o ReduceRow(EmptyString, rows[k], 1) \o <<"\n">>, rows, k + 1)

formatSqlResponseToSimpleTableString(rawResult) ==
    IF rawResult.kind # "array" \/ Len(rawResult.rows) = 0
    THEN EmptyString
    ELSE RowsLoop(EmptyString, rawResult.rows, 1)

-----------------------------------------------------------------------------
(* generateTableInfoFromTables, lines 188-242 *)

\* the mutant: the columns are not separated
RECURSIVE ColumnsLoopNoSeparator(_, _, _)
ColumnsLoopNoSeparator(acc, columns, k) ==
    IF k > Len(columns) THEN acc
    ELSE ColumnsLoopNoSeparator(
            acc \o columns[k].columnName \o <<" ">>
                \o OptionalToString(columns[k].dataType) \o <<" ">>
                \o (IF columns[k].isNullable THEN EmptyString ELSE <<"N", "O", "T", " ", "N", "U", "L", "L">>),
            columns, k + 1)

\* the loop of lines 201-208; the key of the k-th column is k - 1
RECURSIVE ColumnsLoop(_, _, _)
ColumnsLoop(acc, columns, k) ==
    IF k > Len(columns) THEN acc
    ELSE ColumnsLoop(
            acc \o (IF k - 1 > 0 THEN <<",", " ">> ELSE EmptyString)
                \o columns[k].columnName \o <<" ">>
                \o OptionalToString(columns[k].dataType) \o <<" ">>
                \o (IF columns[k].isNullable THEN EmptyString ELSE <<"N", "O", "T", " ", "N", "U", "L", "L">>),
            columns, k + 1)

\* sqlCreateTableQuery, lines 200-209
SqlCreateTableQuery(currentTable) ==
    ColumnsLoop(<<"C", "R", "E", "A", "T", "E", " ", "T", "A", "B", "L", "E", " ">> \o currentTable.tableName \o <<" ", "(", "\n">>,
                currentTable.columns, 1) \o <<")", " ", "\n">>

\* the grave accent, which a string literal of this language cannot hold
Backtick == "[grave accent]"

\* sqlSelectInfoQuery, lines 211-217
SqlSelectInfoQuery(type, currentTable, nb) ==
    IF type = "mysql"
    THEN <<"S", "E", "L", "E", "C", "T", " ", "*", " ", "F", "R", "O", "M", " ">> \o << Backtick >> \o currentTable.tableName
            \o << Backtick >> \o <<" ", "L", "I", "M", "I", "T", " ">>
            \o NumberToString(nb) \o <<";", "\n">>
    ELSE <<"S", "E", "L", "E", "C", "T", " ", "*", " ", "F", "R", "O", "M", " ", "\"">> \o currentTable.tableName \o <<"\"", " ", "L", "I", "M", "I", "T", " ">>
            \o NumberToString(nb) \o <<";", "\n">>

\* the reduce of lines 219-222
RECURSIVE ReduceColumnNames(_, _, _)
ReduceColumnNames(completeString, columns, k) ==
    IF k > Len(columns) THEN completeString
    ELSE ReduceColumnNames(completeString \o <<" ">> \o columns[k].columnName,
                           columns, k + 1)

ColumnNamesConcatString(currentTable) ==
    ReduceColumnNames(EmptyString, currentTable.columns, 1) \o <<"\n">>

\* the outcome of one awaited sample query
Resolved(response) == [failed |-> FALSE, response |-> response, error |-> EmptyString]
Rejected(err) == [failed |-> TRUE, response |-> UndefinedResponse, error |-> err]

\* sample, lines 224-231: set from the response, left empty by the catch
SampleOf(outcome) ==
    IF outcome.failed THEN EmptyString
    ELSE formatSqlResponseToSimpleTableString(outcome.response)

\* the mutant: every remaining table's query is issued at once
QueriesIssuedAllAtOnce(type, tbls, i, nb) ==
    [k \in 1..(Len(tbls) - i + 1) |-> SqlSelectInfoQuery(type, tbls[i + k - 1], nb)]

\* line 226: the one query an iteration issues
QueriesIssued(type, tbls, i, nb) ==
    << SqlSelectInfoQuery(type, tbls[i], nb) >>

\* the mutant: the catch skips the rest of the iteration, block included
AfterSampleSkipsFailed(gs, pend, outcome) ==
    IF outcome.failed THEN gs
    ELSE gs \o (pend.sqlCreateTableQuery \o pend.sqlSelectInfoQuery
                  \o pend.columnNamesConcatString \o SampleOf(outcome))

\* lines 233-238: the block appended once the query has settled
AfterSample(gs, pend, outcome) ==
    gs \o (pend.sqlCreateTableQuery \o pend.sqlSelectInfoQuery
             \o pend.columnNamesConcatString \o SampleOf(outcome))

NoPending ==
    [sqlCreateTableQuery |-> EmptyString, sqlSelectInfoQuery |-> EmptyString,
     columnNamesConcatString |-> EmptyString]

-----------------------------------------------------------------------------
(* renderTableInfo: the entry point that validates the include and ignore  *)
(* lists, filters the snapshot and renders it.  Its code is not in         *)
(* sql_utils.ts; it is modelled from the specification, sections 4.3, 6    *)
(* and 7.                                                                  *)

\* the snapshot restricted to the include list (when non-empty) and without
\* the ignore list, in the snapshot's own order
RECURSIVE FilterTables(_, _, _)
FilterTables(tbls, includeTables, ignoreTables) ==
    IF Len(tbls) = 0 THEN << >>
    ELSE LET keep == /\ (Len(includeTables) > 0 =>
                            Includes(includeTables, Head(tbls).tableName))
                     /\ ~Includes(ignoreTables, Head(tbls).tableName)
             rest == FilterTables(Tail(tbls), includeTables, ignoreTables)
         IN  IF keep THEN << Head(tbls) >> \o rest ELSE rest

\* the mutant: the include list is validated and the ignore list is not
ValidateListsIncludeOnly(tbls, includeTables, ignoreTables) ==
    verifyIncludeTablesExistInDatabase(tbls, includeTables)

\* the validation that runs before anything else: the include list, then the
\* ignore list
ValidateLists(tbls, includeTables, ignoreTables) ==
    LET inc == verifyIncludeTablesExistInDatabase(tbls, includeTables)
    IN  IF inc.threw THEN inc
        ELSE verifyIgnoreTablesExistInDatabase(tbls, ignoreTables)

-----------------------------------------------------------------------------
(* Initial values of the parts a specification does not exercise *)

NotCalled == [op |-> "none", threw |-> FALSE, message |-> EmptyString]
NoCall == [op |-> "none", snapshot |-> << >>,
           includeTables |-> << >>, ignoreTables |-> << >>]

IdleNormalize ==
    /\ rawResultsTableAndColumn = << >>
    /\ sqlTable = Undefined

IdleVerify ==
    /\ tablesFromDatabase = << >>
    /\ listTables = << >>
    /\ errorPrefixMsg = EmptyString
    /\ verifyOutcome = NotCalled

IdleCatalog ==
    /\ catalog = { }
    /\ catPc = "start"
    /\ rep = << >>
    /\ catResult = Undefined
    /\ catError = Undefined
    /\ catRejection = Undefined

IdleGenerate ==
    /\ tables = Undefined
    /\ nbSampleRow = 0
    /\ call = NoCall
    /\ genPc = "start"
    /\ idx = 0
    /\ globalString = EmptyString
    /\ pending = NoPending
    /\ outcomes = << >>
    /\ consoleLog = << >>
    /\ genResult = Undefined
    /\ genError = Undefined

IdleDataSource ==
    /\ dsType = "postgres"
    /\ dsDatabase = "public"
    /\ queryLog = << >>
    /\ outstanding = 0

-----------------------------------------------------------------------------
(* formatToSqlTable applied to a raw result *)

InitNormalize ==
    /\ rawResultsTableAndColumn \in SeqUpTo(NormalizeRows, MaxRawRows)
    /\ sqlTable = Undefined
    /\ IdleVerify /\ IdleDataSource /\ IdleCatalog /\ IdleGenerate

Normalize ==
    /\ ~sqlTable.some
    /\ sqlTable' = Some(formatToSqlTable(rawResultsTableAndColumn))
    /\ UNCHANGED << rawResultsTableAndColumn, verifyVars, dsVars, catVars, genVars >>

NextNormalize == Normalize

SpecNormalize == InitNormalize /\ [][NextNormalize]_vars

-----------------------------------------------------------------------------
(* verifyListTablesExistInDatabase and its two callers *)

InitVerify ==
    /\ tablesFromDatabase \in VerifySnapshots
    /\ listTables \in SeqUpTo(VerifyNames, MaxListLen)
    /\ errorPrefixMsg \in { IncludePrefix, IgnorePrefix }
    /\ verifyOutcome = NotCalled
    /\ IdleNormalize /\ IdleDataSource /\ IdleCatalog /\ IdleGenerate

VerifyReturns(op, r) ==
    /\ verifyOutcome.op = "none"
    /\ verifyOutcome' = [op |-> op, threw |-> r.threw, message |-> r.message]
    /\ UNCHANGED << tablesFromDatabase, listTables, errorPrefixMsg,
                    normalizeVars, dsVars, catVars, genVars >>

CallVerifyList ==
    VerifyReturns("list",
        verifyListTablesExistInDatabase(tablesFromDatabase, listTables, errorPrefixMsg))

CallVerifyInclude ==
    VerifyReturns("include",
        verifyIncludeTablesExistInDatabase(tablesFromDatabase, listTables))

CallVerifyIgnore ==
    VerifyReturns("ignore",
        verifyIgnoreTablesExistInDatabase(tablesFromDatabase, listTables))

NextVerify == CallVerifyList \/ CallVerifyInclude \/ CallVerifyIgnore

SpecVerify == InitVerify /\ [][NextVerify]_vars

-----------------------------------------------------------------------------
(* getTableAndColumnsName against a database *)

DataSourceTypes == { "postgres", "sqlite", "mysql", "mssql" }
SupportedTypes == { "postgres", "sqlite", "mysql" }

InitCatalog ==
    /\ dsType \in DataSourceTypes
    /\ dsDatabase \in { "public", "audit" }
    /\ queryLog = << >>
    /\ outstanding = 0
    /\ catalog \in { c \in SUBSET (IF dsType = "sqlite" THEN SqliteColumns
                                                        ELSE ServerColumns) :
                        Cardinality(c) <= MaxCatalogCols }
    /\ catPc = "start"
    /\ rep = << >>
    /\ catResult = Undefined
    /\ catError = Undefined
    /\ catRejection = Undefined
    /\ IdleNormalize /\ IdleVerify /\ IdleGenerate

\* lines 110-125, 131-148, 154-163, 169: pick the query and issue it, or throw
GetTableAndColumnsNameCall ==
    /\ catPc = "start"
    /\ LET sql == CatalogSqlFor(dsType, dsDatabase)
       IN  IF sql.some
           THEN /\ queryLog' = Append(queryLog, sql.val)
                /\ outstanding' = outstanding + 1
                /\ catPc' = "await"
                /\ catError' = catError
           ELSE /\ catPc' = "thrown"
                /\ catError' = Some(NotImplementedMessage)
                /\ UNCHANGED << queryLog, outstanding >>
    /\ UNCHANGED << dsType, dsDatabase, catalog, rep, catResult, catRejection,
                    normalizeVars, verifyVars, genVars >>

\* lines 126-128, 149-151, 164-166: the query resolves and the rows are normalised
CatalogQueryResolves ==
    /\ catPc = "await"
    /\ \E rows \in ExecuteCatalogQuery(queryLog[Len(queryLog)], catalog) :
          /\ rep' = rows
          /\ catResult' = Some(formatToSqlTable(rows))
    /\ catPc' = "returned"
    /\ outstanding' = outstanding - 1
    /\ UNCHANGED << dsType, dsDatabase, queryLog, catalog, catError, catRejection,
                    normalizeVars, verifyVars, genVars >>

\* the query rejects; catRejection records what the executor rejected with
CatalogQueryRejects ==
    /\ catPc = "await"
    /\ \E err \in DriverErrors :
          LET after == CatalogRejected(err)
          IN  /\ catPc' = after.pc
              /\ catError' = after.error
              /\ catResult' = after.result
              /\ catRejection' = Some(err)
    /\ outstanding' = outstanding - 1
    /\ UNCHANGED << dsType, dsDatabase, queryLog, catalog, rep,
                    normalizeVars, verifyVars, genVars >>

NextCatalog ==
    GetTableAndColumnsNameCall \/ CatalogQueryResolves \/ CatalogQueryRejects

SpecCatalog == InitCatalog /\ [][NextCatalog]_vars

-----------------------------------------------------------------------------
(* generateTableInfoFromTables and renderTableInfo against an executor *)

\* the catalog rows the rendered snapshots are normalised from
RenderRows ==
    { RawRow(NameUsers, <<"i", "d">>, Some(<<"i", "n", "t">>), <<"N", "O">>),
      RawRow(NameUsers, <<"n", "a", "m", "e">>, Some(<<"t", "e", "x", "t">>), <<"Y", "E", "S">>),
      RawRow(NameT2, <<"c">>, Undefined, <<"N", "O">>),
      RawRow(NameT2, <<"d">>, Some(<<"i", "n", "t">>), <<"Y", "E", "S">>) }

RenderSnapshots ==
    { formatToSqlTable(rows) :
        rows \in { s \in SeqUpTo(RenderRows, MaxRenderRows) :
                     \A i, j \in 1..Len(s) : i # j => s[i] # s[j] } }

\* the rows and responses of the sample queries
SampleRowPool ==
    { << Num(1), Str(<<"a">>) >>, << Num(2), Str(<<"b">>) >> }

SampleResponses ==
    { UndefinedResponse, ObjectResponse }
    \cup { ArrayOf(rows) : rows \in SeqUpTo(SampleRowPool, MaxSampleRows) }

\* the include and ignore lists renderTableInfo is called with
TableLists == { << >>, << NameUsers >>, << NameGhost >>, << NameT2, NameGhost >> }

InitRender ==
    /\ dsType \in { "mysql", "postgres" }
    /\ dsDatabase = "public"
    /\ queryLog = << >>
    /\ outstanding = 0
    /\ tables \in { Undefined } \cup { Some(s) : s \in RenderSnapshots }
    /\ nbSampleRow \in { 2, 10 }
    /\ call = NoCall
    /\ genPc = "start"
    /\ idx = 0
    /\ globalString = EmptyString
    /\ pending = NoPending
    /\ outcomes = << >>
    /\ consoleLog = << >>
    /\ genResult = Undefined
    /\ genError = Undefined
    /\ IdleNormalize /\ IdleVerify /\ IdleCatalog

\* lines 193-197: the call of generateTableInfoFromTables on the snapshot
GenerateTableInfoFromTablesCall ==
    /\ genPc = "start"
    /\ call' = [NoCall EXCEPT !.op = "generateTableInfoFromTables",
                              !.snapshot = tables.val]
    /\ IF ~tables.some
       THEN /\ genPc' = "returned"
            /\ genResult' = Some(EmptyString)
            /\ UNCHANGED << idx, globalString >>
       ELSE /\ genPc' = "loop"
            /\ idx' = 1
            /\ globalString' = EmptyString
            /\ genResult' = genResult
    /\ UNCHANGED << tables, nbSampleRow, pending, outcomes, consoleLog, genError,
                    dsVars, normalizeVars, verifyVars, catVars >>

\* renderTableInfo: validate both lists, then filter and start rendering
RenderTableInfoCall ==
    /\ genPc = "start"
    /\ tables.some
    /\ \E includeTables \in TableLists, ignoreTables \in TableLists :
          LET checked == ValidateLists(tables.val, includeTables, ignoreTables)
          IN  /\ call' = [op |-> "renderTableInfo", snapshot |-> tables.val,
                          includeTables |-> includeTables,
                          ignoreTables |-> ignoreTables]
              /\ IF checked.threw
                 THEN /\ genPc' = "thrown"
                      /\ genError' = Some(checked.message)
                      /\ UNCHANGED << tables, idx, globalString >>
                 ELSE /\ tables' = Some(FilterTables(tables.val, includeTables,
                                                     ignoreTables))
                      /\ genPc' = "loop"
                      /\ idx' = 1
                      /\ globalString' = EmptyString
                      /\ genError' = genError
    /\ UNCHANGED << nbSampleRow, pending, outcomes, consoleLog, genResult,
                    dsVars, normalizeVars, verifyVars, catVars >>

\* lines 198-226: build the three texts of the current table and issue its query
IssueSampleQuery ==
    /\ genPc = "loop"
    /\ idx <= Len(tables.val)
    /\ LET currentTable == tables.val[idx]
           issued == QueriesIssued(dsType, tables.val, idx, nbSampleRow)
       IN  /\ pending' =
                 [sqlCreateTableQuery |-> SqlCreateTableQuery(currentTable),
                  sqlSelectInfoQuery |->
                      SqlSelectInfoQuery(dsType, currentTable, nbSampleRow),
                  columnNamesConcatString |-> ColumnNamesConcatString(currentTable)]
           /\ queryLog' = queryLog \o issued
           /\ outstanding' = outstanding + Len(issued)
    /\ genPc' = "await"
    /\ UNCHANGED << dsType, dsDatabase, tables, nbSampleRow, call, idx, globalString,
                    outcomes, consoleLog, genResult, genError,
                    normalizeVars, verifyVars, catVars >>

\* what follows the settling of the awaited query, lines 227-239
Settle(outcome) ==
    /\ globalString' = AfterSample(globalString, pending, outcome)
    /\ outcomes' = Append(outcomes, outcome)
    /\ outstanding' = outstanding - 1
    /\ idx' = idx + 1
    /\ genPc' = "loop"
    /\ UNCHANGED << dsType, dsDatabase, queryLog, tables, nbSampleRow, call,
                    pending, genResult, genError,
                    normalizeVars, verifyVars, catVars >>

\* lines 226-227: the query resolves
SampleQueryResolves ==
    /\ genPc = "await"
    /\ \E response \in SampleResponses :
          Settle(Resolved(response))
    /\ consoleLog' = consoleLog

\* lines 228-231: the query rejects; the error is logged and nothing else
SampleQueryRejects ==
    /\ genPc = "await"
    /\ \E err \in DriverErrors :
          /\ Settle(Rejected(err))
          /\ consoleLog' = Append(consoleLog, err)

\* line 241: the loop is over
GenerateReturns ==
    /\ genPc = "loop"
    /\ idx > Len(tables.val)
    /\ genPc' = "returned"
    /\ genResult' = Some(globalString)
    /\ UNCHANGED << tables, nbSampleRow, call, idx, globalString, pending,
                    outcomes, consoleLog, genError,
                    dsVars, normalizeVars, verifyVars, catVars >>

NextRender ==
    \/ GenerateTableInfoFromTablesCall
    \/ RenderTableInfoCall
    \/ IssueSampleQuery
    \/ SampleQueryResolves
    \/ SampleQueryRejects
    \/ GenerateReturns

SpecRender == InitRender /\ [][NextRender]_vars

-----------------------------------------------------------------------------
(* Properties *)

\* the k-th smallest element of a finite set of integers
KthSmallest(S, k) == CHOOSE p \in S : Cardinality({ q \in S : q < p }) = k - 1

\* the concatenation of f[1], ..., f[n]
RECURSIVE ConcatAll(_, _)
ConcatAll(f, n) == IF n = 0 THEN << >> ELSE ConcatAll(f, n - 1) \o f[n]

(* ---- C4 ---- *)

\* C4: formatToSqlTable returns tables with pairwise distinct names, in the
\* order of their first occurrence in the input; the columns of a table are
\* exactly the input rows that carry its name, in input order, so that there
\* are as many columns as input rows; and isNullable is true exactly when the
\* row's is_nullable is the string "YES".
C4_Normalize ==
    sqlTable.some =>
      LET rows == rawResultsTableAndColumn
          snap == sqlTable.val
          firsts == { p \in 1..Len(rows) :
                        \A q \in 1..(p - 1) : rows[q].table_name # rows[p].table_name }
          RowsOf(name) == { p \in 1..Len(rows) : rows[p].table_name = name }
          total == ConcatAll([k \in 1..Len(snap) |-> snap[k].columns], Len(snap))
      IN  /\ \A i, j \in 1..Len(snap) : i # j => snap[i].tableName # snap[j].tableName
          /\ Len(snap) = Cardinality(firsts)
          /\ \A k \in 1..Len(snap) :
                snap[k].tableName = rows[KthSmallest(firsts, k)].table_name
          /\ \A k \in 1..Len(snap) :
                LET mine == RowsOf(snap[k].tableName)
                    cols == snap[k].columns
                IN  /\ Len(cols) = Cardinality(mine)
                    /\ \A j \in 1..Len(cols) :
                          LET row == rows[KthSmallest(mine, j)]
                          IN  /\ cols[j].columnName = row.column_name
                              /\ cols[j].dataType = row.data_type
                              /\ cols[j].isNullable = (row.is_nullable = <<"Y", "E", "S">>)
          /\ Len(total) = Len(rows)

\* C4 witness: a raw result whose rows of one table are not contiguous, with a
\* nullable column and one whose is_nullable is neither "YES" nor "NO", normalised
C4_Witness ==
    /\ sqlTable.some
    /\ Len(rawResultsTableAndColumn) = 3
    /\ rawResultsTableAndColumn[1].table_name = NameT1
    /\ rawResultsTableAndColumn[2].table_name = NameT2
    /\ rawResultsTableAndColumn[3].table_name = NameT1
    /\ rawResultsTableAndColumn[1].is_nullable = <<"Y", "E", "S">>
    /\ rawResultsTableAndColumn[3].is_nullable = <<"y", "e", "s">>
    /\ Len(sqlTable.val) = 2
    /\ Len(sqlTable.val[1].columns) = 2

(* ---- C2 ---- *)

\* C2: verifyListTablesExistInDatabase throws exactly when the list holds a
\* name that is no table of the snapshot (never for the empty list); the
\* message is "<label> the table <name> was not found in the database" with
\* <name> the first absent name of the list and <label> the caller's prefix.
C2_VerifyList ==
    verifyOutcome.op # "none" =>
      LET names == { tablesFromDatabase[k].tableName : k \in 1..Len(tablesFromDatabase) }
          absent == { k \in 1..Len(listTables) : listTables[k] \notin names }
          label == CASE verifyOutcome.op = "include" ->
                          <<"I", "n", "c", "l", "u", "d", "e", " ", "t", "a", "b", "l", "e", "s", " ", "n", "o", "t", " ", "f", "o", "u", "n", "d", " ", "i", "n", " ", "d", "a", "t", "a", "b", "a", "s", "e", ":">>
                     [] verifyOutcome.op = "ignore" ->
                          <<"I", "g", "n", "o", "r", "e", " ", "t", "a", "b", "l", "e", "s", " ", "n", "o", "t", " ", "f", "o", "u", "n", "d", " ", "i", "n", " ", "d", "a", "t", "a", "b", "a", "s", "e", ":">>
                     [] OTHER -> errorPrefixMsg
      IN  /\ verifyOutcome.threw <=> (absent # { })
          /\ listTables = << >> => ~verifyOutcome.threw
          /\ verifyOutcome.threw =>
                verifyOutcome.message =
                    label \o <<" ", "t", "h", "e", " ", "t", "a", "b", "l", "e", " ">> \o listTables[KthSmallest(absent, 1)]
                          \o <<" ", "w", "a", "s", " ", "n", "o", "t", " ", "f", "o", "u", "n", "d", " ", "i", "n", " ", "t", "h", "e", " ", "d", "a", "t", "a", "b", "a", "s", "e">>

\* C2 witness: a call that threw on a list of two different absent names,
\* against a snapshot with tables
C2_Witness ==
    /\ verifyOutcome.op = "include"
    /\ verifyOutcome.threw
    /\ Len(tablesFromDatabase) = 2
    /\ listTables = << NameGhost, EmptyString >>

(* ---- C3 ---- *)

\* C3: getTableAndColumnsName on a type outside postgres, sqlite and mysql
\* throws, returns no snapshot and has issued no query.
C3_UnsupportedDialect ==
    (dsType \notin { "postgres", "sqlite", "mysql" } /\ catPc # "start") =>
      /\ catPc = "thrown"
      /\ catError.some
      /\ ~catResult.some
      /\ queryLog = << >>
      /\ outstanding = 0

\* C3 witness: the call on an mssql data source with a catalog of tables has thrown
C3_Witness ==
    /\ dsType = "mssql"
    /\ catPc = "thrown"
    /\ Cardinality(catalog) >= 2

(* ---- C10 ---- *)

\* C10: once the executor has rejected the catalog query, the call has thrown
\* that same error, there is no snapshot, empty or partial, and the rejected
\* query is the only query ever issued.
C10_CatalogFailurePropagates ==
    catRejection.some =>
      /\ dsType \in { "postgres", "sqlite", "mysql" }
      /\ catPc = "thrown"
      /\ catError = catRejection
      /\ ~catResult.some
      /\ Len(queryLog) = 1
      /\ outstanding = 0
      /\ ~ENABLED NextCatalog

\* C10 witness: the catalog query of a sqlite data source with a catalog of
\* tables was rejected with a timeout
C10_Witness ==
    /\ dsType = "sqlite"
    /\ catRejection = Some(<<"t", "i", "m", "e", "o", "u", "t">>)
    /\ Cardinality(catalog) >= 2

(* ---- C6 ---- *)

\* the catalog's columns of a table in the schema the query reads
VisibleColumns(name) ==
    { c \in catalog :
        /\ c.table_name = name
        /\ c.table_schema = queryLog[1].whereTableSchema }

\* C6 (as claimed): for every supported type the snapshot's tables are in
\* table-name order and the columns of each table are in the catalog's
\* ordinal order, whatever order the executor returns unordered rows in.
C6_OrderedSnapshot ==
    (catPc = "returned" /\ dsType \in { "postgres", "sqlite", "mysql" }) =>
      LET snap == catResult.val
      IN  /\ \A i, j \in 1..Len(snap) :
                i < j => LexLess(snap[i].tableName, snap[j].tableName)
          /\ \A k \in 1..Len(snap) :
                \A i, j \in 1..Len(snap[k].columns) :
                   i < j =>
                     \A r \in VisibleColumns(snap[k].tableName),
                        s \in VisibleColumns(snap[k].tableName) :
                          (/\ r.column_name = snap[k].columns[i].columnName
                           /\ s.column_name = snap[k].columns[j].columnName)
                          => r.ordinal_position <= s.ordinal_position

(* ---- C7 ---- *)

\* C7 (as claimed): on postgres every table of the snapshot is a table of
\* schema public, every column under it is a column of that public table,
\* and no column appears twice.
C7_PublicSchemaOnly ==
    (catPc = "returned" /\ dsType = "postgres") =>
      LET snap == catResult.val
      IN  \A k \in 1..Len(snap) :
             LET cols == snap[k].columns
                 public == { c \in catalog : /\ c.table_schema = "public"
                                             /\ c.table_name = snap[k].tableName }
             IN  /\ public # { }
                 /\ \A j \in 1..Len(cols) :
                       \E c \in public :
                          /\ c.column_name = cols[j].columnName
                          /\ c.data_type = cols[j].dataType
                          /\ (c.is_nullable = <<"Y", "E", "S">>) = cols[j].isNullable
                 /\ \A i, j \in 1..Len(cols) :
                       i # j => cols[i].columnName # cols[j].columnName

(* ---- C1 ---- *)

\* the block of a table whose sample query settled with the given outcome: the
\* declaration, the SELECT statement, the legend, and the sample rows, none
\* when the query failed
BlockOf(table, outcome) ==
    SqlCreateTableQuery(table)
      \o SqlSelectInfoQuery(dsType, table, nbSampleRow)
      \o ColumnNamesConcatString(table)
      \o (IF outcome.failed THEN EmptyString
          ELSE formatSqlResponseToSimpleTableString(outcome.response))

\* C1: whichever sample queries the executor rejects, rendering never throws
\* and goes on; the text holds one block per settled table, in order, each
\* depending only on its own table and its own outcome: with its sample rows
\* when its query resolved, and with the declaration, the SELECT statement and
\* the legend followed by nothing when its query was rejected; and the call
\* returns once every table has its block.
C1_SampleFailureTolerated ==
    /\ (\E k \in 1..Len(outcomes) : outcomes[k].failed) =>
          /\ genPc \in { "loop", "await", "returned" }
          /\ Len(consoleLog) = Cardinality({ k \in 1..Len(outcomes) : outcomes[k].failed })
    /\ genPc \in { "loop", "await" } => ENABLED NextRender
    /\ genPc \in { "loop", "await", "returned" } /\ tables.some =>
          /\ Len(outcomes) <= Len(tables.val)
          /\ globalString =
                ConcatAll([k \in 1..Len(outcomes) |-> BlockOf(tables.val[k], outcomes[k])],
                          Len(outcomes))
    /\ genPc = "returned" /\ tables.some =>
          /\ Len(outcomes) = Len(tables.val)
          /\ genResult = Some(globalString)

\* C1 witness: a render of two tables has returned; the first table's query
\* was rejected and the second resolved with rows
C1_Witness ==
    /\ genPc = "returned"
    /\ call.op = "generateTableInfoFromTables"
    /\ Len(outcomes) = 2
    /\ outcomes[1].failed
    /\ ~outcomes[2].failed
    /\ outcomes[2].response.kind = "array"
    /\ Len(outcomes[2].response.rows) = 2

(* ---- C8 ---- *)

\* C8: the sample queries are issued one per table, in snapshot order, the
\* next one only after the previous one has settled, so that at most one is
\* outstanding; at the return exactly one query per table has been issued and
\* the text is the blocks of the tables in snapshot order, nothing in between.
C8_SequentialQueries ==
    /\ outstanding \in { 0, 1 }
    /\ (outstanding = 1) <=> (genPc = "await")
    /\ Len(queryLog) = Len(outcomes) + outstanding
    /\ queryLog # << >> =>
          /\ tables.some
          /\ Len(queryLog) <= Len(tables.val)
          /\ \A k \in 1..Len(queryLog) :
                queryLog[k] = SqlSelectInfoQuery(dsType, tables.val[k], nbSampleRow)
    /\ genPc = "returned" =>
          LET n == IF tables.some THEN Len(tables.val) ELSE 0
          IN  /\ Len(queryLog) = n
              /\ genResult.some
              /\ genResult.val =
                    ConcatAll([k \in 1..n |-> BlockOf(tables.val[k], outcomes[k])], n)

\* C8 witness: a render of two tables has returned after two queries, the
\* second of which was rejected
C8_Witness ==
    /\ genPc = "returned"
    /\ Len(queryLog) = 2
    /\ ~outcomes[1].failed
    /\ outcomes[2].failed

(* ---- C9 ---- *)

\* the names of a list that are no table of the snapshot
AbsentFrom(snapshot, list) ==
    { k \in 1..Len(list) :
        \A t \in 1..Len(snapshot) : snapshot[t].tableName # list[k] }

\* C9: renderTableInfo called with an include or ignore list that names a
\* table absent from the snapshot throws an error that names the list and an
\* absent name of it, before any query is issued and any text produced.
C9_ValidationBeforeRendering ==
    (/\ call.op = "renderTableInfo"
     /\ \/ AbsentFrom(call.snapshot, call.includeTables) # { }
        \/ AbsentFrom(call.snapshot, call.ignoreTables) # { }) =>
      /\ genPc = "thrown"
      /\ genError.some
      /\ \/ \E k \in AbsentFrom(call.snapshot, call.includeTables) :
               genError.val = <<"I", "n", "c", "l", "u", "d", "e", " ", "t", "a", "b", "l", "e", "s", " ", "n", "o", "t", " ", "f", "o", "u", "n", "d", " ", "i", "n", " ", "d", "a", "t", "a", "b", "a", "s", "e", ":", " ", "t", "h", "e", " ", "t", "a", "b", "l", "e", " ">>
                                \o call.includeTables[k]
                                \o <<" ", "w", "a", "s", " ", "n", "o", "t", " ", "f", "o", "u", "n", "d", " ", "i", "n", " ", "t", "h", "e", " ", "d", "a", "t", "a", "b", "a", "s", "e">>
         \/ \E k \in AbsentFrom(call.snapshot, call.ignoreTables) :
               genError.val = <<"I", "g", "n", "o", "r", "e", " ", "t", "a", "b", "l", "e", "s", " ", "n", "o", "t", " ", "f", "o", "u", "n", "d", " ", "i", "n", " ", "d", "a", "t", "a", "b", "a", "s", "e", ":", " ", "t", "h", "e", " ", "t", "a", "b", "l", "e", " ">>
                                \o call.ignoreTables[k]
                                \o <<" ", "w", "a", "s", " ", "n", "o", "t", " ", "f", "o", "u", "n", "d", " ", "i", "n", " ", "t", "h", "e", " ", "d", "a", "t", "a", "b", "a", "s", "e">>
      /\ queryLog = << >>
      /\ outstanding = 0
      /\ outcomes = << >>
      /\ globalString = EmptyString
      /\ ~genResult.some

\* C9 witness: renderTableInfo has thrown on an ignore list whose second name
\* is absent from a snapshot of two tables, the include list being valid
C9_Witness ==
    /\ genPc = "thrown"
    /\ call.op = "renderTableInfo"
    /\ Len(call.snapshot) = 2
    /\ call.includeTables = << NameUsers >>
    /\ call.ignoreTables = << NameT2, NameGhost >>

(* ---- C5 ---- *)

\* a column as the declaration lists it
ColumnText(column) ==
    column.columnName \o <<" ">> \o OptionalToString(column.dataType)
       \o (IF column.isNullable THEN <<" ">> ELSE <<" ", "N", "O", "T", " ", "N", "U", "L", "L">>)

\* the columns of a declaration, separated by a comma and a space
RECURSIVE JoinColumns(_)
JoinColumns(columns) ==
    IF Len(columns) = 0 THEN EmptyString
    ELSE IF Len(columns) = 1 THEN ColumnText(columns[1])
    ELSE ColumnText(columns[1]) \o <<",", " ">> \o JoinColumns(Tail(columns))

\* the names of the columns, each after a space
RECURSIVE LegendOf(_)
LegendOf(columns) ==
    IF Len(columns) = 0 THEN EmptyString
    ELSE <<" ">> \o columns[1].columnName \o LegendOf(Tail(columns))

\* the values of a row, each after a space
RECURSIVE RowText(_)
RowText(values) ==
    IF Len(values) = 0 THEN EmptyString
    ELSE <<" ">> \o ValueToString(values[1]) \o RowText(Tail(values))

\* one line per sample row
RECURSIVE SampleLines(_)
SampleLines(rows) ==
    IF Len(rows) = 0 THEN EmptyString
    ELSE RowText(rows[1]) \o <<"\n">> \o SampleLines(Tail(rows))

\* the block of a table, the declaration opening with the given text
BlockText(opening, table, outcome) ==
    <<"C", "R", "E", "A", "T", "E", " ", "T", "A", "B", "L", "E", " ">> \o table.tableName \o opening
       \o JoinColumns(table.columns) \o <<")", " ", "\n">>
       \o <<"S", "E", "L", "E", "C", "T", " ", "*", " ", "F", "R", "O", "M", " ">>
       \o (IF dsType = "mysql" THEN << Backtick >> ELSE <<"\"">>)
       \o table.tableName
       \o (IF dsType = "mysql" THEN << Backtick >> ELSE <<"\"">>)
       \o <<" ", "L", "I", "M", "I", "T", " ">> \o NumberToString(nbSampleRow) \o <<";", "\n">>
       \o LegendOf(table.columns) \o <<"\n">>
       \o (IF ~outcome.failed /\ outcome.response.kind = "array"
           THEN SampleLines(outcome.response.rows)
           ELSE EmptyString)

\* the schema {Users(id int not null, name text nullable)} of the example
UsersSnapshot ==
    << [tableName |-> <<"U", "s", "e", "r", "s">>,
        columns |-> << [columnName |-> <<"i", "d">>, dataType |-> Some(<<"i", "n", "t">>),
                        isNullable |-> FALSE],
                       [columnName |-> <<"n", "a", "m", "e">>, dataType |-> Some(<<"t", "e", "x", "t">>),
                        isNullable |-> TRUE] >>] >>

\* the example has been rendered: that schema, a limit of 2, the rows
\* [{id:1,name:"a"},{id:2,name:"b"}], a type other than mysql
UsersExampleRendered ==
    /\ genPc = "returned"
    /\ tables = Some(UsersSnapshot)
    /\ nbSampleRow = 2
    /\ dsType # "mysql"
    /\ outcomes = << Resolved(ArrayOf(<< << Num(1), Str(<<"a">>) >>,
                                         << Num(2), Str(<<"b">>) >> >>)) >>

\* the rendered text is the blocks of the tables, each opening as given
RenderedAs(opening) ==
    (genPc = "returned" /\ tables.some) =>
       genResult.val =
          ConcatAll([k \in 1..Len(tables.val) |->
                        BlockText(opening, tables.val[k], outcomes[k])],
                    Len(tables.val))

\* C5 (as claimed): the declaration is "CREATE TABLE <name> (" immediately
\* followed by the columns, and the example renders with no line break after
\* the opening parenthesis.
C5_BlockAsClaimed ==
    /\ RenderedAs(<<" ", "(">>)
    /\ UsersExampleRendered =>
          genResult.val = <<"C", "R", "E", "A", "T", "E", " ", "T", "A", "B", "L", "E", " ", "U", "s", "e", "r", "s", " ", "(", "i", "d", " ", "i", "n", "t", " ", "N", "O", "T", " ", "N", "U", "L", "L", ",", " ", "n", "a", "m", "e", " ", "t", "e", "x", "t", " ", ")", " ", "\n", "S", "E", "L", "E", "C", "T", " ", "*", " ", "F", "R", "O", "M", " ", "\"", "U", "s", "e", "r", "s", "\"", " ", "L", "I", "M", "I", "T", " ", "2", ";", "\n", " ", "i", "d", " ", "n", "a", "m", "e", "\n", " ", "1", " ", "a", "\n", " ", "2", " ", "b", "\n">>

\* C5 (amended): the declaration is "CREATE TABLE <name> (" followed by a line
\* break and then the columns, "<columnName> <dataType> NOT NULL" or
\* "<columnName> <dataType> ", separated by ", " and closed by ") " and a line
\* break; then the SELECT line, the legend line and one line per sample row.
\* The example renders with a line break after the opening parenthesis.
C5_BlockAmended ==
    /\ RenderedAs(<<" ", "(", "\n">>)
    /\ UsersExampleRendered =>
          genResult.val = <<"C", "R", "E", "A", "T", "E", " ", "T", "A", "B", "L", "E", " ", "U", "s", "e", "r", "s", " ", "(", "\n", "i", "d", " ", "i", "n", "t", " ", "N", "O", "T", " ", "N", "U", "L", "L", ",", " ", "n", "a", "m", "e", " ", "t", "e", "x", "t", " ", ")", " ", "\n", "S", "E", "L", "E", "C", "T", " ", "*", " ", "F", "R", "O", "M", " ", "\"", "U", "s", "e", "r", "s", "\"", " ", "L", "I", "M", "I", "T", " ", "2", ";", "\n", " ", "i", "d", " ", "n", "a", "m", "e", "\n", " ", "1", " ", "a", "\n", " ", "2", " ", "b", "\n">>

\* C5 witness: the example has been rendered
C5_Witness == UsersExampleRendered
====
